---- MODULE Spec2Model ----
(***************************************************************************)
(* A model of the vcf_to_23andme pipeline: main.py and the three stages    *)
(* modules/update_formatting.py (Filter Normalizer), modules/hard_filter.py*)
(* (Hard Filter) and modules/check_rsIDs.py (rsID Reconciler).             *)
(*                                                                         *)
(* Text.  A line is the sequence of its tab-separated fields, and a field  *)
(* is the sequence of its atoms: the pieces that the code itself cuts it   *)
(* into (a leading "chr", the ';'-separated FILTER tokens, the             *)
(* ':'-separated FORMAT keys and sample values, the ','-separated ALT      *)
(* alleles).  The empty string is the field <<"">>, so every field has at  *)
(* least one atom, as str.split always returns at least one piece.         *)
(***************************************************************************)
EXTENDS Integers, Sequences, FiniteSets, TLC

\* Longest input file (data lines) and longest database, in entries.
MaxLines == 2
MaxCands == 2

\* Python's None, as pysam gives it for a "." ID or ALT column.  No field is
\* the empty sequence, so None differs from every field.
None == <<>>

F(a) == <<a>>

SeqsUpTo(S, n) == UNION {[1..k -> S] : k \in 0..n}

----------------------------------------------------------------------------
(* update_formatting.py *)

PRIMARY_CHROMOSOMES ==
    {"1", "2", "3", "4", "5", "6", "7", "8", "9", "10", "11", "12", "13", "14",
     "15", "16", "17", "18", "19", "20", "21", "22"} \cup {"X", "Y", "M", "MT"}

\* line.startswith('#'): the first atom of a header line is one of these.
StartsWithHash(line) == line[1][1] \in {"##fileformat=VCFv4.2", "#CHROM"}

\* chrom_raw.startswith("chr"): a leading "chr" is an atom of its own.
StartsWithChr(field) == field[1] = "chr"

\* chrom_raw[3:] of a field that starts with "chr".
DropChr(field) == IF Len(field) = 1 THEN F("") ELSE Tail(field)

\* str.upper(), atom by atom.
UpperAtom(a) ==
    CASE a = "x" -> "X"
      [] a = "y" -> "Y"
      [] a = "m" -> "M"
      [] a = "mt" -> "MT"
      [] a = "chr" -> "CHR"
      [] a = "Un_KN707904v1" -> "UN_KN707904V1"
      [] OTHER -> a

Upper(field) == [i \in DOMAIN field |-> UpperAtom(field[i])]

\* chrom in PRIMARY_CHROMOSOMES
InPrimary(chrom) == Len(chrom) = 1 /\ chrom[1] \in PRIMARY_CHROMOSOMES

\* The four consecutive ifs that rewrite fields[0].
RemapChrom(chrom) ==
    LET a == IF Upper(chrom) = F("X") THEN F("23") ELSE chrom
        b == IF Upper(a) = F("Y") THEN F("24") ELSE a
        c == IF Upper(b) = F("MT") THEN F("25") ELSE b
    IN  IF Upper(c) = F("M") THEN F("25") ELSE c

\* chrom: the chromosome field without one leading "chr".
StripChrom(chrom_raw) ==
    IF StartsWithChr(chrom_raw) THEN DropChr(chrom_raw) ELSE chrom_raw

\* list.index: the first position of key in keys (which holds it), 1-based.
IndexOf(keys, key) == CHOOSE i \in DOMAIN keys :
                          keys[i] = key /\ \A j \in 1..(i - 1) : keys[j] # key

Contains(seq, x) == \E i \in DOMAIN seq : seq[i] = x

\* PromoteLowGQ without the test that 'LowGQ' is absent.
PromoteLowGQAlways(filter_field) ==
    IF filter_field = F("PASS") THEN F("LowGQ") ELSE Append(filter_field, "LowGQ")

\* The new FILTER of a record whose sample FT is 'LowGQ'.
PromoteLowGQ(filter_field) ==
    IF filter_field = F("PASS") THEN F("LowGQ")
    ELSE IF ~Contains(filter_field, "LowGQ") THEN Append(filter_field, "LowGQ")
    ELSE filter_field

\* One data line through the loop body: what is done with it (written,
\* skipped, or an exception raised), the line written, and whether
\* modified_count is incremented.
NormLine(line) ==
    LET fields == line
        chrom == StripChrom(fields[1])
        fields0 == [fields EXCEPT ![1] = RemapChrom(chrom)]
        Result(act, out, mod) == [act |-> act, line |-> out, modified |-> mod]
    IN  IF ~InPrimary(chrom) THEN Result("skip", line, FALSE)
        ELSE IF Len(fields0) < 10 THEN Result("IndexError", line, FALSE)
        ELSE LET filter_field == fields0[7]
                 format_keys == fields0[9]
                 sample_values == fields0[10]
             IN  IF ~Contains(format_keys, "FT") THEN Result("write", fields0, FALSE)
                 ELSE IF IndexOf(format_keys, "FT") > Len(sample_values)
                      THEN Result("IndexError", line, FALSE)
                 ELSE IF sample_values[IndexOf(format_keys, "FT")] # "LowGQ"
                      THEN Result("write", fields0, FALSE)
                 ELSE Result("write",
                             [fields0 EXCEPT ![7] = PromoteLowGQ(filter_field)],
                             PromoteLowGQ(filter_field) # filter_field)

----------------------------------------------------------------------------
(* hard_filter.py *)

\* One data line through the loop body.
HardLine(line) ==
    LET fields == line
    IN  IF Len(fields) < 7 THEN "IndexError"
        ELSE IF fields[7] = F("PASS") THEN "write"
        ELSE "skip"

----------------------------------------------------------------------------
(* check_rsIDs.py *)

\* int() of a POS column.
PosOf(field) == CASE field = F("100") -> 100
                  [] field = F("101") -> 101
                  [] OTHER -> 0

\* The record pysam makes of a data line: a "." ID or ALT is None.
PysamRec(line) ==
    [chrom |-> line[1], pos |-> PosOf(line[2]),
     id |-> IF line[3] = F(".") THEN None ELSE line[3],
     ref |-> line[4],
     alts |-> IF line[5] = F(".") THEN None ELSE line[5],
     line |-> line]

\* The line pysam writes for a record: its line with the record's id.
RecLine(rec) == [rec.line EXCEPT ![3] = IF rec.id = None THEN F(".") ELSE rec.id]

\* dbsnp.fetch(chrom, start, end): the entries of that chromosome whose
\* zero-based position lies in [start, end), in the database's order.
Fetch(dbsnp, chrom, start, end) ==
    SelectSeq(dbsnp, LAMBDA e : e.chrom = chrom /\ e.pos - 1 >= start /\ e.pos - 1 < end)

\* "for alt in rec.alts: if alt in dbsnp_rec.alts": the outcome for one
\* candidate whose ref equals the record's.  Iterating None, or testing
\* membership in None, raises TypeError.
MatchAlts(rec_alts, db_alts) ==
    IF rec_alts = None THEN "TypeError"
    ELSE IF db_alts = None THEN "TypeError"
    ELSE IF \E i \in DOMAIN rec_alts : Contains(db_alts, rec_alts[i]) THEN "found"
    ELSE "next"

\* The loop over the candidates: found with the identifier adopted, not
\* found, or an exception.
RECURSIVE Search(_, _)
Search(rec, cands) ==
    IF cands = <<>> THEN [res |-> "notfound", id |-> None]
    ELSE LET dbsnp_rec == Head(cands)
         IN  IF dbsnp_rec.ref = rec.ref
             THEN LET m == MatchAlts(rec.alts, dbsnp_rec.alts)
                  IN  IF m = "found" THEN [res |-> "found", id |-> dbsnp_rec.id]
                      ELSE IF m = "TypeError" THEN [res |-> "TypeError", id |-> None]
                      ELSE Search(rec, Tail(cands))
             ELSE Search(rec, Tail(cands))

\* Whether a record's identifier is already there.
HasId(rec) == rec.id \notin {None, F(".")}

----------------------------------------------------------------------------
(* The state *)

VARIABLES
    main,          \* main(): [pc]
    norm,          \* run_vcf_filter_modification: pc, line index, its counters
    hard,          \* run_hard_filter: pc, line index, its counters
    rsid,          \* filter_and_add_rsids: pc, record index, its counters
    err,           \* the exception or rejection that ended a stage or main
    argc_ok,       \* len(sys.argv) = 5
    genome_build,  \* sys.argv[3], as given
    input_exists,  \* os.path.isfile(input_path)
    dbsnp_files,   \* the dbSNP files that exist in dbsnp_dir
    in_file,       \* the lines of the input VCF
    mod_file,      \* the lines of <sample>_modified_format.vcf
    hard_file,     \* the lines of <sample>_modified_format_hardfiltered.vcf
    rsid_file,     \* the lines of <sample>.rsid_checked.vcf
    created,       \* the files that exist among "mod", "hard", "rsid"
    handles,       \* the file and database handles that are open
    dbsnp,         \* the entries of the dbSNP file, in file order
    run,           \* which run of the Filter Normalizer this is
    first_out      \* the output of the Filter Normalizer's previous run

vars == <<main, norm, hard, rsid, err, argc_ok, genome_build, input_exists,
          dbsnp_files, in_file, mod_file, hard_file, rsid_file, created,
          handles, dbsnp, run, first_out>>

config == <<argc_ok, genome_build, input_exists, dbsnp_files, dbsnp>>

NormIdle == [pc |-> "idle", idx |-> 1, total_variants |-> 0, modified_count |-> 0]
HardIdle == [pc |-> "idle", idx |-> 1, total_variants |-> 0, passed_variants |-> 0]
RsidIdle == [pc |-> "idle", dbsnp_vcf |-> "", idx |-> 1,
             kept |-> 0, updated |-> 0, dropped |-> 0]

\* An exception leaves a stage.
Raise(stage) == [stage EXCEPT !.pc = "raised"]

----------------------------------------------------------------------------
(* run_vcf_filter_modification *)

\* The os.path.isfile check of the input.
NormEnter ==
    /\ norm.pc = "call"
    /\ IF input_exists
       THEN norm' = [norm EXCEPT !.pc = "open_in"] /\ err' = err
       ELSE norm' = Raise(norm) /\ err' = "FileNotFoundError:input"
    /\ UNCHANGED <<main, hard, rsid, config, in_file, mod_file, hard_file,
                   rsid_file, created, handles, run, first_out>>

\* "with open(input_path, 'r') as fin": the open may fail.
NormOpenIn ==
    /\ norm.pc = "open_in"
    /\ \E ok \in BOOLEAN :
         IF ok
         THEN /\ norm' = [norm EXCEPT !.pc = "open_out"]
              /\ handles' = handles \cup {"norm.fin"}
              /\ err' = err
         ELSE /\ norm' = Raise(norm)
              /\ handles' = handles
              /\ err' = "OSError"
    /\ UNCHANGED <<main, hard, rsid, config, in_file, mod_file, hard_file,
                   rsid_file, created, run, first_out>>

\* "open(output_path, 'w') as fout": creates or empties the file; when it
\* fails the with statement closes fin.
NormOpenOut ==
    /\ norm.pc = "open_out"
    /\ \E ok \in BOOLEAN :
         IF ok
         THEN /\ norm' = [norm EXCEPT !.pc = "loop", !.idx = 1]
              /\ handles' = handles \cup {"norm.fout"}
              /\ created' = created \cup {"mod"}
              /\ mod_file' = <<>>
              /\ err' = err
         ELSE /\ norm' = Raise(norm)
              /\ handles' = handles \ {"norm.fin"}
              /\ created' = created
              /\ mod_file' = mod_file
              /\ err' = "OSError"
    /\ UNCHANGED <<main, hard, rsid, config, in_file, hard_file, rsid_file,
                   run, first_out>>

\* One iteration of "for line in fin".  An exception leaves the with
\* statement, which closes both files.
NormStep ==
    /\ norm.pc = "loop"
    /\ norm.idx <= Len(in_file)
    /\ LET line == in_file[norm.idx]
           r == NormLine(line)
       IN  IF StartsWithHash(line)
           THEN /\ mod_file' = Append(mod_file, line)
                /\ norm' = [norm EXCEPT !.idx = @ + 1]
                /\ UNCHANGED <<handles, err>>
           ELSE IF r.act = "skip"
           THEN /\ norm' = [norm EXCEPT !.idx = @ + 1]
                /\ UNCHANGED <<mod_file, handles, err>>
           ELSE IF r.act = "write"
           THEN /\ mod_file' = Append(mod_file, r.line)
                /\ norm' = [norm EXCEPT !.idx = @ + 1,
                                        !.total_variants = @ + 1,
                                        !.modified_count = IF r.modified THEN @ + 1 ELSE @]
                /\ UNCHANGED <<handles, err>>
           ELSE /\ norm' = [Raise(norm) EXCEPT !.total_variants = @ + 1]
                /\ handles' = handles \ {"norm.fin", "norm.fout"}
                /\ err' = r.act
                /\ UNCHANGED mod_file
    /\ UNCHANGED <<main, hard, rsid, config, in_file, hard_file, rsid_file,
                   created, run, first_out>>

\* The loop is over: the with statement closes both files, the function
\* prints its counts and returns output_path.
NormFinish ==
    /\ norm.pc = "loop"
    /\ norm.idx > Len(in_file)
    /\ norm' = [norm EXCEPT !.pc = "done"]
    /\ handles' = handles \ {"norm.fin", "norm.fout"}
    /\ UNCHANGED <<main, hard, rsid, err, config, in_file, mod_file, hard_file,
                   rsid_file, created, run, first_out>>

\* The stage is called again, on the file it has just written (its output
\* goes to a new file, <name>_modified_format_modified_format.vcf).
NormRerun ==
    /\ norm.pc = "done"
    /\ run = 1
    /\ run' = 2
    /\ first_out' = mod_file
    /\ in_file' = mod_file
    /\ mod_file' = <<>>
    /\ created' = created \ {"mod"}
    /\ norm' = [NormIdle EXCEPT !.pc = "call"]
    /\ UNCHANGED <<main, hard, rsid, err, config, hard_file, rsid_file, handles>>

----------------------------------------------------------------------------
(* run_hard_filter *)

\* The os.path.isfile check of the input.
HardEnter ==
    /\ hard.pc = "call"
    /\ IF "mod" \in created
       THEN hard' = [hard EXCEPT !.pc = "open_in"] /\ err' = err
       ELSE hard' = Raise(hard) /\ err' = "FileNotFoundError:vcf"
    /\ UNCHANGED <<main, norm, rsid, config, in_file, mod_file, hard_file,
                   rsid_file, created, handles, run, first_out>>

HardOpenIn ==
    /\ hard.pc = "open_in"
    /\ \E ok \in BOOLEAN :
         IF ok
         THEN /\ hard' = [hard EXCEPT !.pc = "open_out"]
              /\ handles' = handles \cup {"hard.fin"}
              /\ err' = err
         ELSE /\ hard' = Raise(hard)
              /\ handles' = handles
              /\ err' = "OSError"
    /\ UNCHANGED <<main, norm, rsid, config, in_file, mod_file, hard_file,
                   rsid_file, created, run, first_out>>

HardOpenOut ==
    /\ hard.pc = "open_out"
    /\ \E ok \in BOOLEAN :
         IF ok
         THEN /\ hard' = [hard EXCEPT !.pc = "loop", !.idx = 1]
              /\ handles' = handles \cup {"hard.fout"}
              /\ created' = created \cup {"hard"}
              /\ hard_file' = <<>>
              /\ err' = err
         ELSE /\ hard' = Raise(hard)
              /\ handles' = handles \ {"hard.fin"}
              /\ created' = created
              /\ hard_file' = hard_file
              /\ err' = "OSError"
    /\ UNCHANGED <<main, norm, rsid, config, in_file, mod_file, rsid_file,
                   run, first_out>>

\* One iteration of "for line in fin".
HardStep ==
    /\ hard.pc = "loop"
    /\ hard.idx <= Len(mod_file)
    /\ LET line == mod_file[hard.idx]
           r == HardLine(line)
       IN  IF StartsWithHash(line)
           THEN /\ hard_file' = Append(hard_file, line)
                /\ hard' = [hard EXCEPT !.idx = @ + 1]
                /\ UNCHANGED <<handles, err>>
           ELSE IF r = "write"
           THEN /\ hard_file' = Append(hard_file, line)
                /\ hard' = [hard EXCEPT !.idx = @ + 1, !.total_variants = @ + 1,
                                        !.passed_variants = @ + 1]
                /\ UNCHANGED <<handles, err>>
           ELSE IF r = "skip"
           THEN /\ hard' = [hard EXCEPT !.idx = @ + 1, !.total_variants = @ + 1]
                /\ UNCHANGED <<hard_file, handles, err>>
           ELSE /\ hard' = [Raise(hard) EXCEPT !.total_variants = @ + 1]
                /\ handles' = handles \ {"hard.fin", "hard.fout"}
                /\ err' = r
                /\ UNCHANGED hard_file
    /\ UNCHANGED <<main, norm, rsid, config, in_file, mod_file, rsid_file,
                   created, run, first_out>>

HardFinish ==
    /\ hard.pc = "loop"
    /\ hard.idx > Len(mod_file)
    /\ hard' = [hard EXCEPT !.pc = "done"]
    /\ handles' = handles \ {"hard.fin", "hard.fout"}
    /\ UNCHANGED <<main, norm, rsid, err, config, in_file, mod_file, hard_file,
                   rsid_file, created, run, first_out>>

----------------------------------------------------------------------------
(* filter_and_add_rsids *)

\* The records infile.fetch() yields: the data lines, in file order.
Records(file) == SelectSeq(file, LAMBDA line : ~StartsWithHash(line))

\* The header pysam reads when it opens a file.
Header(file) == SelectSeq(file, StartsWithHash)

\* dbsnp = pysam.VariantFile(dbsnp_vcf): fails on a missing file, and may
\* fail on an unreadable one.
RsidOpenDb ==
    /\ rsid.pc = "call"
    /\ \E ok \in BOOLEAN :
         IF ok /\ rsid.dbsnp_vcf \in dbsnp_files
         THEN /\ rsid' = [rsid EXCEPT !.pc = "open_in"]
              /\ handles' = handles \cup {"dbsnp"}
              /\ err' = err
         ELSE /\ rsid' = Raise(rsid)
              /\ handles' = handles
              /\ err' = "OSError"
    /\ UNCHANGED <<main, norm, hard, config, in_file, mod_file, hard_file,
                   rsid_file, created, run, first_out>>

\* infile = pysam.VariantFile(input_vcf).  Nothing closes dbsnp when this
\* raises.
RsidOpenIn ==
    /\ rsid.pc = "open_in"
    /\ \E ok \in BOOLEAN :
         IF ok /\ "hard" \in created
         THEN /\ rsid' = [rsid EXCEPT !.pc = "open_out"]
              /\ handles' = handles \cup {"infile"}
              /\ err' = err
         ELSE /\ rsid' = Raise(rsid)
              /\ handles' = handles
              /\ err' = "OSError"
    /\ UNCHANGED <<main, norm, hard, config, in_file, mod_file, hard_file,
                   rsid_file, created, run, first_out>>

\* outfile = pysam.VariantFile(output_vcf, "w", header=infile.header).
RsidOpenOut ==
    /\ rsid.pc = "open_out"
    /\ \E ok \in BOOLEAN :
         IF ok
         THEN /\ rsid' = [rsid EXCEPT !.pc = "loop", !.idx = 1]
              /\ handles' = handles \cup {"outfile"}
              /\ created' = created \cup {"rsid"}
              /\ rsid_file' = Header(hard_file)
              /\ err' = err
         ELSE /\ rsid' = Raise(rsid)
              /\ handles' = handles
              /\ created' = created
              /\ rsid_file' = rsid_file
              /\ err' = "OSError"
    /\ UNCHANGED <<main, norm, hard, config, in_file, mod_file, hard_file,
                   run, first_out>>

\* RsidStep without the count of a record that found no match.
RsidStepDropUncounted ==
    /\ rsid.pc = "loop"
    /\ rsid.idx <= Len(Records(hard_file))
    /\ LET rec == PysamRec(Records(hard_file)[rsid.idx])
           r == Search(rec, Fetch(dbsnp, rec.chrom, rec.pos - 1, rec.pos))
       IN  IF HasId(rec)
           THEN /\ rsid_file' = Append(rsid_file, RecLine(rec))
                /\ rsid' = [rsid EXCEPT !.idx = @ + 1, !.kept = @ + 1]
                /\ err' = err
           ELSE IF r.res = "found"
           THEN /\ rsid_file' = Append(rsid_file, RecLine([rec EXCEPT !.id = r.id]))
                /\ rsid' = [rsid EXCEPT !.idx = @ + 1, !.updated = @ + 1]
                /\ err' = err
           ELSE IF r.res = "notfound"
           THEN /\ rsid_file' = rsid_file
                /\ rsid' = [rsid EXCEPT !.idx = @ + 1]
                /\ err' = err
           ELSE /\ rsid_file' = rsid_file
                /\ rsid' = Raise(rsid)
                /\ err' = r.res
    /\ UNCHANGED <<main, norm, hard, config, in_file, mod_file, hard_file,
                   created, handles, run, first_out>>

\* One iteration of "for rec in infile.fetch()".  Nothing closes the three
\* handles when the body raises.
RsidStep ==
    /\ rsid.pc = "loop"
    /\ rsid.idx <= Len(Records(hard_file))
    /\ LET rec == PysamRec(Records(hard_file)[rsid.idx])
           r == Search(rec, Fetch(dbsnp, rec.chrom, rec.pos - 1, rec.pos))
       IN  IF HasId(rec)
           THEN /\ rsid_file' = Append(rsid_file, RecLine(rec))
                /\ rsid' = [rsid EXCEPT !.idx = @ + 1, !.kept = @ + 1]
                /\ err' = err
           ELSE IF r.res = "found"
           THEN /\ rsid_file' = Append(rsid_file, RecLine([rec EXCEPT !.id = r.id]))
                /\ rsid' = [rsid EXCEPT !.idx = @ + 1, !.updated = @ + 1]
                /\ err' = err
           ELSE IF r.res = "notfound"
           THEN /\ rsid_file' = rsid_file
                /\ rsid' = [rsid EXCEPT !.idx = @ + 1, !.dropped = @ + 1]
                /\ err' = err
           ELSE /\ rsid_file' = rsid_file
                /\ rsid' = Raise(rsid)
                /\ err' = r.res
    /\ UNCHANGED <<main, norm, hard, config, in_file, mod_file, hard_file,
                   created, handles, run, first_out>>

\* The loop is over: the three close() calls and the prints.
RsidFinish ==
    /\ rsid.pc = "loop"
    /\ rsid.idx > Len(Records(hard_file))
    /\ rsid' = [rsid EXCEPT !.pc = "done"]
    /\ handles' = handles \ {"infile", "outfile", "dbsnp"}
    /\ UNCHANGED <<main, norm, hard, err, config, in_file, mod_file, hard_file,
                   rsid_file, created, run, first_out>>

----------------------------------------------------------------------------
(* main *)

\* str.strip() of the build argument.
Strip(s) == CASE s = " GRCh38" -> "GRCh38"
              [] s = "GRCh37\n" -> "GRCh37"
              [] OTHER -> s

\* The dbSNP file of a build.
DbsnpFilename(build) ==
    IF build = "GRCh37" THEN "GCF_000001405.25.gz" ELSE "GCF_000001405.39.gz"

\* The argument count and the genome build are checked, then the Filter
\* Normalizer is called.
MainArgs ==
    /\ main.pc = "start"
    /\ IF ~argc_ok
       THEN main' = [main EXCEPT !.pc = "exit1"] /\ err' = "usage" /\ norm' = norm
       ELSE IF Strip(genome_build) \notin {"GRCh37", "GRCh38"}
       THEN main' = [main EXCEPT !.pc = "exit1"] /\ err' = "genome_build" /\ norm' = norm
       ELSE /\ main' = [main EXCEPT !.pc = "norm"]
            /\ norm' = [norm EXCEPT !.pc = "call"]
            /\ err' = err
    /\ UNCHANGED <<hard, rsid, config, in_file, mod_file, hard_file, rsid_file,
                   created, handles, run, first_out>>

\* The Filter Normalizer has returned; the Hard Filter is called on its
\* output.
MainAfterNorm ==
    /\ main.pc = "norm"
    /\ norm.pc = "done"
    /\ main' = [main EXCEPT !.pc = "hard"]
    /\ hard' = [hard EXCEPT !.pc = "call"]
    /\ UNCHANGED <<norm, rsid, err, config, in_file, mod_file, hard_file,
                   rsid_file, created, handles, run, first_out>>

\* The Hard Filter has returned; the dbSNP file of the build is looked for,
\* and the rsID Reconciler is called.  The FileNotFoundError raised here is
\* caught by main's own except clause.
MainAfterHard ==
    /\ main.pc = "hard"
    /\ hard.pc = "done"
    /\ IF DbsnpFilename(Strip(genome_build)) \notin dbsnp_files
       THEN main' = [main EXCEPT !.pc = "exit1"] /\ err' = "FileNotFoundError:dbsnp"
            /\ rsid' = rsid
       ELSE /\ main' = [main EXCEPT !.pc = "rsid"]
            /\ rsid' = [rsid EXCEPT !.pc = "call",
                                    !.dbsnp_vcf = DbsnpFilename(Strip(genome_build))]
            /\ err' = err
    /\ UNCHANGED <<norm, hard, config, in_file, mod_file, hard_file, rsid_file,
                   created, handles, run, first_out>>

\* The rsID Reconciler has returned.
MainAfterRsid ==
    /\ main.pc = "rsid"
    /\ rsid.pc = "done"
    /\ main' = [main EXCEPT !.pc = "done"]
    /\ UNCHANGED <<norm, hard, rsid, err, config, in_file, mod_file, hard_file,
                   rsid_file, created, handles, run, first_out>>

\* "except Exception as e": an exception of the running stage ends the
\* pipeline with sys.exit(1).
MainExcept ==
    /\ \/ main.pc = "norm" /\ norm.pc = "raised"
       \/ main.pc = "hard" /\ hard.pc = "raised"
       \/ main.pc = "rsid" /\ rsid.pc = "raised"
    /\ main' = [main EXCEPT !.pc = "exit1"]
    /\ UNCHANGED <<norm, hard, rsid, err, config, in_file, mod_file, hard_file,
                   rsid_file, created, handles, run, first_out>>

----------------------------------------------------------------------------
(* The inputs *)

HeaderLine == <<F("##fileformat=VCFv4.2")>>

DataLine(chrom, pos, id, ref, alt, filter, format, sample) ==
    <<chrom, F(pos), F(id), F(ref), alt, F("50"), filter, F("."), format, sample>>

\* CHROM columns: plain and prefixed autosomes, the sex and mitochondrial
\* names in both cases, a twice-prefixed name and an unplaced contig.
Chroms == {<<"chr", "7">>, <<"7">>, <<"chr", "X">>, <<"Y">>, <<"chr", "M">>, <<"MT">>,
           <<"x">>, <<"chr", "chr", "7">>, <<"chr", "Un_KN707904v1">>}

Filters == {F("PASS"), F("LowGQ"), F("q10"), <<"q10", "LowGQ">>}

\* FORMAT keys with the first sample's values; the last has no FT value.
FormatSamples == {<<F("GT"), F("0/1")>>,
                  <<<<"GT", "FT">>, <<"0/1", "LowGQ">>>>,
                  <<<<"GT", "FT">>, <<"0/1", "PASS">>>>,
                  <<<<"FT", "GT">>, <<"LowGQ", "0/1">>>>,
                  <<<<"GT", "FT">>, F("0/1")>>}

\* Lines with too few columns, the empty line among them.
ShortLines == {<<F("")>>,
               <<F("7"), F("100")>>,
               <<<<"chr", "Un_KN707904v1">>, F("100")>>,
               <<F("7"), F("100"), F("."), F("A"), F("G"), F("50")>>,
               <<F("7"), F("100"), F("."), F("A"), F("G"), F("50"), F("PASS")>>}

NormLines ==
    {HeaderLine} \cup ShortLines
    \cup {DataLine(c, "100", ".", "A", F("G"), F("PASS"), <<"GT", "FT">>, <<"0/1", "LowGQ">>) :
            c \in Chroms}
    \cup {DataLine(<<"chr", "7">>, "100", ".", "A", F("G"), f, fs[1], fs[2]) :
            f \in Filters, fs \in FormatSamples}

HardLines ==
    {HeaderLine} \cup ShortLines
    \cup {DataLine(F("7"), "100", ".", "A", F("G"), f, F("GT"), F("0/1")) :
            f \in Filters \cup {<<"PASS", "LowGQ">>}}

\* Records for the Reconciler: one with an identifier, and records without
\* one that differ in position, reference allele and alternate alleles.
RsidLines ==
    {DataLine(F("7"), "100", "rs9", "A", F("G"), F("PASS"), F("GT"), F("0/1")),
     DataLine(F("7"), "101", ".", "A", F("G"), F("PASS"), F("GT"), F("0/1"))}
    \cup {DataLine(F("7"), "100", ".", ref, alt, F("PASS"), F("GT"), F("0/1")) :
            ref \in {"A", "T"}, alt \in {F("."), F("G"), <<"C", "G">>}}

\* dbSNP entries at position 100 of chromosome 7, with or without alternate
\* alleles and an identifier, and one entry at position 101.
DbEntries ==
    {[chrom |-> F("7"), pos |-> 100, ref |-> F(ref), alts |-> alts, id |-> id] :
        ref \in {"A", "T"}, alts \in {None, F("G")}, id \in {None, F("rs1")}}
    \cup {[chrom |-> F("7"), pos |-> 100, ref |-> F("A"), alts |-> F("G"), id |-> F("rs2")],
          [chrom |-> F("7"), pos |-> 101, ref |-> F("A"), alts |-> F("G"), id |-> F("rs3")]}

\* An indexed dbSNP file is sorted by position.
Databases == {d \in SeqsUpTo(DbEntries, MaxCands) :
                \A i, j \in DOMAIN d : i < j => d[i].pos <= d[j].pos}

\* The pipeline's inputs: a few lines that between them reach every stage.
MainLines ==
    {HeaderLine,
     <<F("7"), F("100")>>,
     DataLine(<<"chr", "7">>, "100", ".", "A", F("G"), F("PASS"), F("GT"), F("0/1")),
     DataLine(<<"chr", "7">>, "100", ".", "A", F("."), F("PASS"), F("GT"), F("0/1")),
     DataLine(<<"chr", "X">>, "100", "rs9", "A", F("G"), F("PASS"), <<"GT", "FT">>, <<"0/1", "PASS">>),
     DataLine(<<"chr", "7">>, "100", ".", "A", F("G"), F("PASS"), <<"GT", "FT">>, <<"0/1", "LowGQ">>),
     DataLine(<<"chr", "Un_KN707904v1">>, "100", ".", "A", F("G"), F("PASS"), F("GT"), F("0/1"))}

MainDatabases ==
    {d \in Databases : \A i \in DOMAIN d : d[i].pos = 100 /\ d[i].ref = F("A")}

GenomeBuilds == {"GRCh37", "GRCh38", " GRCh38", "hg19"}

DbsnpNames == {"GCF_000001405.25.gz", "GCF_000001405.39.gz"}

----------------------------------------------------------------------------
(* The specifications *)

\* Nothing has run and no output exists.
Fresh ==
    /\ norm = NormIdle /\ hard = HardIdle /\ rsid = RsidIdle
    /\ err = "none"
    /\ mod_file = <<>> /\ hard_file = <<>> /\ rsid_file = <<>>
    /\ created = {} /\ handles = {}
    /\ run = 1 /\ first_out = <<>>

\* python main.py <input_dir> <output_dir> <genome_build> sample.vcf
Init ==
    /\ main = [pc |-> "start"]
    /\ Fresh
    /\ argc_ok \in BOOLEAN
    /\ genome_build \in GenomeBuilds
    /\ input_exists \in BOOLEAN
    /\ dbsnp_files \in SUBSET DbsnpNames
    /\ dbsnp \in MainDatabases
    /\ in_file \in IF input_exists THEN SeqsUpTo(MainLines, MaxLines) ELSE {<<>>}

Next ==
    \/ MainArgs \/ MainAfterNorm \/ MainAfterHard \/ MainAfterRsid \/ MainExcept
    \/ NormEnter \/ NormOpenIn \/ NormOpenOut \/ NormStep \/ NormFinish
    \/ HardEnter \/ HardOpenIn \/ HardOpenOut \/ HardStep \/ HardFinish
    \/ RsidOpenDb \/ RsidOpenIn \/ RsidOpenOut \/ RsidStep \/ RsidFinish

Spec == Init /\ [][Next]_vars

\* A stage called on its own, as a module: main is not running.
Direct ==
    /\ main = [pc |-> "none"]
    /\ argc_ok = TRUE
    /\ genome_build = "GRCh38"

\* run_vcf_filter_modification(input_dir, output_dir, vcf_filename), and
\* then once more on the file it wrote.
InitNorm ==
    /\ Direct
    /\ norm = [NormIdle EXCEPT !.pc = "call"]
    /\ hard = HardIdle /\ rsid = RsidIdle
    /\ err = "none"
    /\ mod_file = <<>> /\ hard_file = <<>> /\ rsid_file = <<>>
    /\ created = {} /\ handles = {}
    /\ run = 1 /\ first_out = <<>>
    /\ dbsnp_files = {} /\ dbsnp = <<>>
    /\ input_exists \in BOOLEAN
    /\ in_file \in IF input_exists THEN SeqsUpTo(NormLines, MaxLines) ELSE {<<>>}

NextNorm == NormEnter \/ NormOpenIn \/ NormOpenOut \/ NormStep \/ NormFinish \/ NormRerun

SpecNorm == InitNorm /\ [][NextNorm]_vars

\* run_hard_filter(input_vcf_path)
InitHard ==
    /\ Direct
    /\ norm = NormIdle
    /\ hard = [HardIdle EXCEPT !.pc = "call"]
    /\ rsid = RsidIdle
    /\ err = "none"
    /\ hard_file = <<>> /\ rsid_file = <<>>
    /\ handles = {}
    /\ run = 1 /\ first_out = <<>>
    /\ dbsnp_files = {} /\ dbsnp = <<>>
    /\ input_exists = TRUE /\ in_file = <<>>
    /\ created \in {{}, {"mod"}}
    /\ mod_file \in IF "mod" \in created THEN SeqsUpTo(HardLines, MaxLines) ELSE {<<>>}

NextHard == HardEnter \/ HardOpenIn \/ HardOpenOut \/ HardStep \/ HardFinish

SpecHard == InitHard /\ [][NextHard]_vars

\* filter_and_add_rsids(input_vcf, dbsnp_vcf, output_vcf)
InitRsid ==
    /\ Direct
    /\ norm = NormIdle /\ hard = HardIdle
    /\ rsid = [RsidIdle EXCEPT !.pc = "call", !.dbsnp_vcf = "GCF_000001405.39.gz"]
    /\ err = "none"
    /\ mod_file = <<>> /\ rsid_file = <<>>
    /\ handles = {}
    /\ run = 1 /\ first_out = <<>>
    /\ input_exists = TRUE /\ in_file = <<>>
    /\ created = {"hard"}
    /\ dbsnp_files \in {{}, {"GCF_000001405.39.gz"}}
    /\ dbsnp \in IF dbsnp_files = {} THEN {<<>>} ELSE Databases
    /\ hard_file \in {<<HeaderLine>> \o recs : recs \in SeqsUpTo(RsidLines, MaxLines)}

NextRsid == RsidOpenDb \/ RsidOpenIn \/ RsidOpenOut \/ RsidStep \/ RsidFinish

SpecRsid == InitRsid /\ [][NextRsid]_vars

----------------------------------------------------------------------------
(* The claims *)

Last(seq) == seq[Len(seq)]

\* The step about to be taken is the Filter Normalizer's loop body on a
\* data line.
NormAtDataLine ==
    /\ norm.pc = "loop"
    /\ norm.idx <= Len(in_file)
    /\ ~StartsWithHash(in_file[norm.idx])

\* The step about to be taken is the Reconciler's loop body on a record
\* without an identifier.
RsidAtMissingId ==
    /\ rsid.pc = "loop"
    /\ rsid.idx <= Len(Records(hard_file))
    /\ ~HasId(PysamRec(Records(hard_file)[rsid.idx]))

\* The exceptions and rejections of pipeline setup: the arguments, a
\* missing file, a file that cannot be opened.
SetupErrors == {"usage", "genome_build", "FileNotFoundError:input",
                "FileNotFoundError:vcf", "FileNotFoundError:dbsnp", "OSError"}

\* C1: a second run of the Filter Normalizer, on the output of the first,
\* writes exactly that output again: nothing is dropped, no chromosome is
\* rewritten again and no FILTER gains a second LowGQ.
C1_NormalizerIdempotent ==
    (run = 2 /\ norm.pc = "done") => mod_file = first_out

\* C2: when main rejects the run for its genome build or for the missing
\* dbSNP file of the build, no stage has started and no stage output file
\* exists.
C2_RejectedBeforeAnyStage ==
    (main.pc = "exit1" /\ err \in {"genome_build", "FileNotFoundError:dbsnp"})
        => /\ norm.pc = "idle" /\ hard.pc = "idle" /\ rsid.pc = "idle"
           /\ created = {}

\* C3: every record in the Reconciler's output has an identifier: its ID
\* column is not the missing value ".".
C3_EmittedIdsNonMissing ==
    \A i \in DOMAIN Records(rsid_file) : PysamRec(Records(rsid_file)[i]).id # None

\* C4: once the Hard Filter has gone through its input, its output is the
\* input's header lines and the data lines whose 7th field is exactly
\* "PASS", unmodified and in input order.
C4_HardFilterResult ==
    (hard.pc = "done" \/ (hard.pc = "raised" /\ err = "IndexError"))
        => hard_file = SelectSeq(mod_file, LAMBDA line :
                           \/ StartsWithHash(line)
                           \/ Len(line) >= 7 /\ line[7] = F("PASS"))

\* The first candidate, in the query's order, with the record's reference
\* allele and one of its alternate alleles; 0 when there is none.
FirstQualifying(rec, cands) ==
    LET Q(c) == /\ c.ref = rec.ref
                /\ \E i \in DOMAIN rec.alts : Contains(c.alts, rec.alts[i])
    IN  IF \E k \in DOMAIN cands : Q(cands[k])
        THEN CHOOSE k \in DOMAIN cands : Q(cands[k]) /\ \A j \in 1..(k - 1) : ~Q(cands[j])
        ELSE 0

\* C5: a record without an identifier is written once, with the identifier
\* of the first candidate that has its reference allele and one of its
\* alternate alleles, and is not written when no candidate has both.
C5_FirstMatchAdopted ==
    [][RsidAtMissingId =>
        LET rec == PysamRec(Records(hard_file)[rsid.idx])
            cands == Fetch(dbsnp, rec.chrom, rec.pos - 1, rec.pos)
            k == FirstQualifying(rec, cands)
        IN  IF k = 0 THEN rsid_file' = rsid_file
            ELSE rsid_file' = Append(rsid_file, RecLine([rec EXCEPT !.id = cands[k].id]))
      ]_vars

\* C6: a record without an identifier whose alternate alleles are absent,
\* or one of whose candidates has none, raises nothing: the loop goes on
\* to the next record, and a record without alternate alleles is counted
\* as dropped and not written.
C6_MalformedAllelesNoError ==
    [][(/\ RsidAtMissingId
        /\ LET rec == PysamRec(Records(hard_file)[rsid.idx])
               cands == Fetch(dbsnp, rec.chrom, rec.pos - 1, rec.pos)
           IN  rec.alts = None \/ \E k \in DOMAIN cands : cands[k].alts = None)
       => /\ rsid'.pc = "loop"
          /\ rsid'.idx = rsid.idx + 1
          /\ PysamRec(Records(hard_file)[rsid.idx]).alts = None
                => rsid'.dropped = rsid.dropped + 1 /\ rsid_file' = rsid_file
      ]_vars

\* The chromosome field the claim gives a whitelisted token.
ClaimedChrom(token) ==
    CASE token = F("X") -> F("23")
      [] token = F("Y") -> F("24")
      [] token \in {F("M"), F("MT")} -> F("25")
      [] OTHER -> token

\* C7: a data record is written if and only if its chromosome, without one
\* leading "chr", is in the whitelist; the chromosome written is that token
\* with X, Y, M and MT rewritten to 23, 24, 25 and 25; a record with another
\* token gives no output line and no error.
C7_ChromosomeRule ==
    [][NormAtDataLine =>
        LET line == in_file[norm.idx]
            token == StripChrom(line[1])
        IN  IF InPrimary(token)
            THEN /\ Len(mod_file') = Len(mod_file) + 1
                 /\ Last(mod_file')[1] = ClaimedChrom(token)
            ELSE mod_file' = mod_file /\ norm'.pc = "loop"
      ]_vars

\* C8: for a data record that is written, when FORMAT has FT and the first
\* sample's value there is "LowGQ", a FILTER of "PASS" becomes "LowGQ", any
\* other FILTER gets "LowGQ" appended when it lacks it and is unchanged when
\* it has it, and the FILTER written is never "PASS"; otherwise the FILTER is
\* written unchanged.
C8_LowGQPromotion ==
    [][(NormAtDataLine /\ Len(mod_file') = Len(mod_file) + 1) =>
        LET line == in_file[norm.idx]
            old == line[7]
            new == Last(mod_file')[7]
            keys == line[9]
            values == line[10]
        IN  IF Contains(keys, "FT") /\ values[IndexOf(keys, "FT")] = "LowGQ"
            THEN /\ old = F("PASS") => new = F("LowGQ")
                 /\ (old # F("PASS") /\ ~Contains(old, "LowGQ"))
                        => new = old \o <<"LowGQ">>
                 /\ (old # F("PASS") /\ Contains(old, "LowGQ")) => new = old
                 /\ new # F("PASS")
            ELSE new = old
      ]_vars

\* A record whose FILTER was "PASS" has been promoted to "LowGQ", and one
\* that had "LowGQ" already has been written next.
C8_Witness ==
    /\ run = 1 /\ norm.idx = 3 /\ Len(in_file) = 2 /\ Len(mod_file) = 2
    /\ Len(in_file[1]) = 10 /\ Len(in_file[2]) = 10
    /\ in_file[1][7] = F("PASS") /\ mod_file[1][7] = F("LowGQ")
    /\ in_file[2][7] = <<"q10", "LowGQ">> /\ mod_file[2][7] = <<"q10", "LowGQ">>
    /\ in_file[2][10] = <<"0/1", "LowGQ">>

\* C9: a stage, and the pipeline, is ended only by an anomaly of pipeline
\* setup, never by a data line: not by one with too few columns, nor by one
\* whose sample has no value at the FT position.
C9_RecordAnomaliesNeverEscalate ==
    (norm.pc = "raised" \/ hard.pc = "raised" \/ main.pc = "exit1")
        => err \in SetupErrors

\* C10: when control has left a stage, by return or by exception, every
\* handle the stage opened is closed.
C10_HandlesClosedOnExit ==
    /\ norm.pc \in {"done", "raised"} => handles \cap {"norm.fin", "norm.fout"} = {}
    /\ hard.pc \in {"done", "raised"} => handles \cap {"hard.fin", "hard.fout"} = {}
    /\ rsid.pc \in {"done", "raised"} => handles \cap {"dbsnp", "infile", "outfile"} = {}

\* The positions of the input's records that satisfy P.
RecordsWhere(P(_)) ==
    {i \in DOMAIN Records(hard_file) : P(PysamRec(Records(hard_file)[i]))}

\* A record without an identifier that has a matching candidate.
Matched(rec) ==
    /\ ~HasId(rec)
    /\ FirstQualifying(rec, Fetch(dbsnp, rec.chrom, rec.pos - 1, rec.pos)) # 0

\* C11: when the Reconciler has completed, kept + updated + dropped is the
\* number of input records, kept is the number of records that had an
\* identifier, updated the number of records without one that found a
\* matching candidate, and kept + updated records have been written.
C11_CounterAccounting ==
    rsid.pc = "done" =>
        /\ rsid.kept + rsid.updated + rsid.dropped = Len(Records(hard_file))
        /\ rsid.kept = Cardinality(RecordsWhere(HasId))
        /\ rsid.updated = Cardinality(RecordsWhere(Matched))
        /\ Len(Records(rsid_file)) = rsid.kept + rsid.updated

\* The Reconciler has completed on two records without an identifier, one
\* of which found a match and one of which did not.
C11_Witness ==
    /\ rsid.pc = "done"
    /\ Len(Records(hard_file)) = 2
    /\ rsid.kept = 0 /\ rsid.updated = 1 /\ rsid.dropped = 1

====
